---- MODULE Spec2Model ----
(***************************************************************************)
(* anotify: the multiplexing Registry, the Worker task that owns it, the   *)
(* Shared State that feeds it requests and the consumer adapters that      *)
(* drain the per-subscription channels.                                    *)
(*                                                                         *)
(* Registry   src/src/new/internal/registry.rs                             *)
(* Binding    src/src/new/internal/binding.rs, .../inotify.rs              *)
(* Worker     src/src/task.rs                                              *)
(* Shared     src/src/shared.rs                                            *)
(* Handle     src/src/new/external.rs, adapters .../external/fut.rs        *)
(***************************************************************************)
EXTENDS Integers, Sequences, FiniteSets, TLC

(***************************************************************************)
(* Bounds of the model.                                                    *)
(***************************************************************************)
MaxIds == 2          \* subscription ids handed out in one run
MaxBatches == 1      \* event batches the Binding yields in one run
MaxBatchLen == 2     \* binding events in one batch
channel_size == 2    \* SharedState.channel_size (AnotifyBuilder::with_buffer)

(***************************************************************************)
(* Inputs.                                                                 *)
(***************************************************************************)
NoPath == "-"
\* "l" is a second name (a link) of the inode of "a".
Paths == {"a", "l", "b"}
Inode(p) == IF p = "b" THEN 2 ELSE 1
\* name suffixes the kernel attaches to events of a watched directory
Names == {"x"}
Cookies == {7}
\* what callers ask for: entry point, path, filter
Asks ==
    {<<"next", "a", {"Write"}>>,
     <<"watch", "a", {"Write", "Open"}>>,
     <<"request", "a", {"Write"}>>,
     <<"request", "a", {"Write", "Open"}>>,
     <<"watch", "l", {"Delete", "Move"}>>,
     <<"request", "b", {"Write", "Delete"}>>}

EventFilterType ==
    {"Read", "Write", "Open", "CloseNoModify", "CloseModify", "Move",
     "Metadata", "Create", "Delete", "DirOnly", "FileOnly"}

\* BindingEventType: the kind and, for the two move halves, the cookie.
BT(k, c) == [k |-> k, cookie |-> c]
\* the shapes of binding event the kernel reports: optional name, types
Shapes ==
    {<<NoPath, <<BT("Open", 0)>>>>, <<NoPath, <<BT("Write", 0)>>>>,
     <<NoPath, <<BT("Open", 0), BT("Write", 0)>>>>,
     <<NoPath, <<BT("SelfRemoved", 0)>>>>}
    \cup {<<p, <<BT(k, c)>>>> :
             p \in {NoPath} \cup Names, k \in {"MoveFrom", "MoveTo"}, c \in Cookies}

(***************************************************************************)
(* Finite maps (HashMap).                                                  *)
(***************************************************************************)
Empty == <<>>
Put(f, k, v) == [x \in (DOMAIN f) \cup {k} |-> IF x = k THEN v ELSE f[x]]
Del(f, k) == [x \in (DOMAIN f) \ {k} |-> f[x]]
Count(f, k) == IF k \in DOMAIN f THEN f[k] ELSE 0

(***************************************************************************)
(* State.                                                                  *)
(***************************************************************************)
VARIABLES
    debug_assertions,  \* the build: cfg!(debug_assertions)
    pc,                \* Worker: "running", "panicked", or how it left the loop:
                       \* "closed" (Close), "failed" (poll error), "done" (else arm)
    next_id,           \* SharedState.next_id
    requests,          \* the request channel (FIFO, capacity channel_size)
    subs,              \* id -> what the caller asked for and what became of it
    collectors,        \* Registry.collectors: id -> Collector (sender = chan[id])
    watches,           \* Registry.watches: wd -> Watch
    move_cache,        \* Registry.move_cache: cookie -> path
    chan,              \* id -> events buffered in the per-subscription channel
    rx_open,           \* id -> the adapter still holds the receiver
    kernel,            \* inotify: live wd -> inode
    next_wd,           \* inotify: the next fresh watch descriptor
    n_create,          \* wd -> number of Binding.create calls that returned it
    n_remove,          \* wd -> number of Binding.remove(wd) calls
    calls,             \* the Binding calls of the last Worker step, in order
    last_batch,        \* the batch handled by the last Worker step (else <<>>)
    emitted,           \* per binding event of last_batch: the user events made
    delivered,         \* id -> events put into chan[id] by the last Worker step
    sent,              \* id -> events put into chan[id] over its lifetime
    nbatches,          \* batches yielded so far
    owner,             \* the Anotify handle: "held", "handle" (downgraded),
                       \* "dropped", "closed" or "released" (no handle left)
    cancel_on_drop,    \* Anotify.cancel_on_drop
    requests_closed,   \* the Worker's local requests_closed
    outcome,           \* what the arm taken by the last Worker step came to: "ok",
                       \* "err" or "panic" of a handler, "close", "poll_err";
                       \* "none" after any other step
    polled,            \* id -> what the last poll of its adapter returned:
                       \* "none", "pending", "event", "closed", "end", or
                       \* "dropped" once the adapter itself is dropped
    fd                 \* InotifyBinding.fd: the events queued in the kernel, the
                       \* read readiness AsyncFd holds for it, and what the
                       \* last poll_events returned (result, n events)

vars == <<debug_assertions, pc, next_id, requests, subs, collectors, watches,
          move_cache, chan, rx_open, kernel, next_wd, n_create, n_remove,
          calls, last_batch, emitted, delivered, sent, nbatches,
          owner, cancel_on_drop, requests_closed, outcome, polled, fd>>

Ids == 0 .. (MaxIds - 1)

(***************************************************************************)
(* events.rs                                                               *)
(***************************************************************************)
Event(path, ty, to) == [path |-> path, ty |-> ty, to |-> to]

\* a mapping that matches the two kinds of Close against each other's atom
AsFilterCloseSwapped(ty) ==
    CASE ty = "Read" -> "Read"
      [] ty = "Write" -> "Write"
      [] ty = "Open" -> "Open"
      [] ty = "Close_true" -> "CloseNoModify"
      [] ty = "Close_false" -> "CloseModify"
      [] ty = "Move" -> "Move"
      [] ty = "Create" -> "Create"
      [] ty = "Delete" -> "Delete"
      [] ty = "Metadata" -> "Metadata"

\* Event::contained_in: the filter atom an event type is matched against.
AsFilter(ty) ==
    CASE ty = "Read" -> "Read"
      [] ty = "Write" -> "Write"
      [] ty = "Open" -> "Open"
      [] ty = "Close_true" -> "CloseModify"
      [] ty = "Close_false" -> "CloseNoModify"
      [] ty = "Move" -> "Move"
      [] ty = "Create" -> "Create"
      [] ty = "Delete" -> "Delete"
      [] ty = "Metadata" -> "Metadata"

contained_in(ev, filter) == AsFilter(ev.ty) \in filter

(***************************************************************************)
(* The Binding (InotifyBinding).  b carries kernel, next_wd, n_create,     *)
(* n_remove and calls; ok says whether the add_watch system call succeeds. *)
(***************************************************************************)
WdOfInode(b, ino) ==
    IF \E w \in DOMAIN b.kernel : b.kernel[w] = ino
    THEN CHOOSE w \in DOMAIN b.kernel : b.kernel[w] = ino
    ELSE b.next_wd

BindingCreate(b, path, flags, ok) ==
    LET wd == WdOfInode(b, Inode(path))
        log == Append(b.calls, [op |-> "create", wd |-> IF ok THEN wd ELSE 0,
                                path |-> path, flags |-> flags])
    IN  IF ~ok
        THEN [b EXCEPT !.calls = log, !.res = "err"]
        ELSE [b EXCEPT !.calls = log, !.res = "ok", !.wd = wd,
                       !.kernel = Put(b.kernel, wd, Inode(path)),
                       !.next_wd = IF wd = b.next_wd THEN wd + 1 ELSE b.next_wd,
                       !.n_create = Put(b.n_create, wd, Count(b.n_create, wd) + 1)]

\* add_watch on the path again; the descriptor it returns must be id
\* (assert_eq!), which it is exactly when id is still live in the kernel.
BindingUpdate(b, id, path, flags, ok) ==
    LET log == Append(b.calls, [op |-> "update", wd |-> id,
                                path |-> path, flags |-> flags])
    IN  IF ~ok THEN [b EXCEPT !.calls = log, !.res = "err"]
        ELSE IF id \in DOMAIN b.kernel
        THEN [b EXCEPT !.calls = log, !.res = "ok", !.wd = id]
        ELSE [b EXCEPT !.calls = log, !.res = "panic"]

\* rm_watch; on a descriptor the kernel no longer knows it returns EINVAL,
\* on which convert_error panics.  b.remove_err stands for a Binding whose
\* remove returns an error, as the Result of Binding::remove allows;
\* inotify's rm_watch has no error but EINVAL on a descriptor that is open.
BindingRemove(b, id) ==
    LET log == Append(b.calls, [op |-> "remove", wd |-> id,
                                path |-> NoPath, flags |-> {}])
        cnt == Put(b.n_remove, id, Count(b.n_remove, id) + 1)
    IN  IF b.remove_err
        THEN [b EXCEPT !.calls = log, !.n_remove = cnt, !.res = "err"]
        ELSE IF id \in DOMAIN b.kernel
        THEN [b EXCEPT !.calls = log, !.n_remove = cnt, !.res = "ok",
                       !.kernel = Del(b.kernel, id)]
        ELSE [b EXCEPT !.calls = log, !.n_remove = cnt, !.res = "panic"]

(***************************************************************************)
(* registry.rs: Watch                                                      *)
(***************************************************************************)
\* Watch::register.  The insert sits inside debug_assert!, so it runs only
\* in a build with debug assertions, where the assertion then fails for
\* every id that was not yet interested.
WatchRegister(w, id, filter, dbg) ==
    LET ins == IF dbg THEN [w EXCEPT !.interested = @ \cup {id}] ELSE w
        asserted == dbg /\ id \notin w.interested
    IN  IF asserted THEN [watch |-> ins, some |-> FALSE, panic |-> TRUE]
        ELSE IF filter \subseteq ins.event_filter
        THEN [watch |-> ins, some |-> FALSE, panic |-> FALSE]
        ELSE [watch |-> [ins EXCEPT !.event_filter = @ \cup filter],
              some |-> TRUE, panic |-> FALSE]

\* a has_interest that never reports the last interest gone
has_interest_always(w) == TRUE

has_interest(w) == w.interested # {}

\* Watch::deregister; cols is the collector table the closure `get` reads.
WatchDeregister(w, id, cols) ==
    LET rest == w.interested \ {id}
        new == UNION {cols[i].filter : i \in rest \cap DOMAIN cols}
    IN  IF id \notin w.interested
        THEN [watch |-> w, some |-> FALSE, panic |-> FALSE]
        ELSE IF rest = {}
        THEN [watch |-> [w EXCEPT !.interested = rest],
              some |-> FALSE, panic |-> FALSE]
        ELSE IF ~(rest \subseteq DOMAIN cols)
        THEN [watch |-> [w EXCEPT !.interested = rest],
              some |-> FALSE, panic |-> TRUE]
        ELSE [watch |-> [w EXCEPT !.interested = rest, !.event_filter = new],
              some |-> new # w.event_filter, panic |-> FALSE]

(***************************************************************************)
(* registry.rs: Registry.  s carries the three tables and the Binding.     *)
(***************************************************************************)
\* Registry::register_interest
RegisterInterest(s, req, ok, dbg) ==
    LET found == {w \in DOMAIN s.watches : s.watches[w].path = req.path}
    IN  IF found # {}
        THEN LET wd == CHOOSE w \in found : TRUE
                 r == WatchRegister(s.watches[wd], req.id, req.filter, dbg)
                 s1 == [s EXCEPT !.watches = Put(s.watches, wd, r.watch)]
             IN  IF r.panic THEN [s1 EXCEPT !.res = "panic"]
                 ELSE IF r.some
                 THEN BindingUpdate(s1, wd, r.watch.path, r.watch.event_filter, ok)
                 ELSE [s1 EXCEPT !.res = "ok"]
        ELSE LET b == BindingCreate(s, req.path, req.filter, ok)
                 new_watch == [interested |-> {req.id}, path |-> req.path,
                               event_filter |-> req.filter]
                 new_collector == [wd |-> b.wd, once |-> req.once,
                                   filter |-> req.filter]
             IN  IF b.res # "ok" THEN b
                 ELSE [b EXCEPT !.watches = Put(b.watches, b.wd, new_watch),
                                !.collectors = Put(b.collectors, req.id, new_collector)]

\* a tail of deregister_interest that forgets the kernel watch
DeregForgetRemove(s, wd) ==
    IF s.res # "ok" THEN s
    ELSE IF s.watches[wd].interested # {} THEN s
    ELSE [s EXCEPT !.watches = Del(s.watches, wd)]

\* the early return of deregister_interest on `binding.update(..)?`
DeregAfterUpdate(s, wd) ==
    IF s.res # "ok" THEN s
    ELSE IF has_interest(s.watches[wd]) THEN s
    ELSE BindingRemove([s EXCEPT !.watches = Del(s.watches, wd)], wd)

\* a deregister_interest that reports an unknown id as an error
DeregisterStrict(s, id, ok) ==
    IF id \notin DOMAIN s.collectors THEN [s EXCEPT !.res = "err"]
    ELSE LET removing == s.collectors[id]
             cols == Del(s.collectors, id)
             s1 == [s EXCEPT !.collectors = cols]
         IN  IF removing.wd \notin DOMAIN s.watches
             THEN [s1 EXCEPT !.res = "panic"]
             ELSE LET r == WatchDeregister(s.watches[removing.wd], id, cols)
                      s2 == [s1 EXCEPT !.watches = Put(s.watches, removing.wd, r.watch),
                                       !.res = "ok"]
                  IN  IF r.panic THEN [s2 EXCEPT !.res = "panic"]
                      ELSE IF r.some
                      THEN DeregAfterUpdate(
                               BindingUpdate(s2, removing.wd, r.watch.path,
                                             r.watch.event_filter, ok),
                               removing.wd)
                      ELSE DeregAfterUpdate(s2, removing.wd)

\* Registry::deregister_interest
DeregisterInterest(s, id, ok) ==
    IF id \notin DOMAIN s.collectors THEN [s EXCEPT !.res = "ok"]
    ELSE LET removing == s.collectors[id]
             cols == Del(s.collectors, id)
             s1 == [s EXCEPT !.collectors = cols]
         IN  IF removing.wd \notin DOMAIN s.watches
             THEN [s1 EXCEPT !.res = "panic"]
             ELSE LET r == WatchDeregister(s.watches[removing.wd], id, cols)
                      s2 == [s1 EXCEPT !.watches = Put(s.watches, removing.wd, r.watch),
                                       !.res = "ok"]
                  IN  IF r.panic THEN [s2 EXCEPT !.res = "panic"]
                      ELSE IF r.some
                      THEN DeregAfterUpdate(
                               BindingUpdate(s2, removing.wd, r.watch.path,
                                             r.watch.event_filter, ok),
                               removing.wd)
                      ELSE DeregAfterUpdate(s2, removing.wd)

(***************************************************************************)
(* registry.rs: event translation and delivery                             *)
(***************************************************************************)
\* a cache_or_take that takes the cached half for the wrong side
cache_or_take_swapped(cache, cookie, from, path) ==
    IF cookie \in DOMAIN cache
    THEN LET other == cache[cookie]
         IN  [cache |-> Del(cache, cookie),
              events |-> IF from THEN <<[path |-> other, ty |-> "Move", to |-> path]>>
                                 ELSE <<[path |-> path, ty |-> "Move", to |-> other]>>]
    ELSE [cache |-> Put(cache, cookie, path), events |-> <<>>]

\* a cache_or_take that leaves the cached half in place when it pairs it
cache_or_take_keep(cache, cookie, from, path) ==
    IF cookie \in DOMAIN cache
    THEN LET other == cache[cookie]
         IN  [cache |-> cache,
              events |-> IF from THEN <<[path |-> path, ty |-> "Move", to |-> other]>>
                                 ELSE <<[path |-> other, ty |-> "Move", to |-> path]>>]
    ELSE [cache |-> Put(cache, cookie, path), events |-> <<>>]

\* Registry::cache_or_take; the result is the cache and zero or one event.
cache_or_take(cache, cookie, from, path) ==
    IF cookie \in DOMAIN cache
    THEN LET other == cache[cookie]
         IN  [cache |-> Del(cache, cookie),
              events |-> IF from THEN <<Event(path, "Move", other)>>
                                 ELSE <<Event(other, "Move", path)>>]
    ELSE [cache |-> Put(cache, cookie, path), events |-> <<>>]

\* the match in Registry::convert_event, for one BindingEventType
ConvertTy(cache, path, ty) ==
    CASE ty.k = "Open" -> [cache |-> cache, events |-> <<Event(path, "Open", NoPath)>>]
      [] ty.k = "CloseNoModify" -> [cache |-> cache, events |-> <<Event(path, "Close_false", NoPath)>>]
      [] ty.k = "CloseModify" -> [cache |-> cache, events |-> <<Event(path, "Close_true", NoPath)>>]
      [] ty.k = "Read" -> [cache |-> cache, events |-> <<Event(path, "Read", NoPath)>>]
      [] ty.k = "Write" -> [cache |-> cache, events |-> <<Event(path, "Write", NoPath)>>]
      [] ty.k = "Metadata" -> [cache |-> cache, events |-> <<Event(path, "Metadata", NoPath)>>]
      [] ty.k = "Create" -> [cache |-> cache, events |-> <<Event(path, "Create", NoPath)>>]
      [] ty.k = "Delete" -> [cache |-> cache, events |-> <<Event(path, "Delete", NoPath)>>]
      [] ty.k = "SelfRemoved" -> [cache |-> cache, events |-> <<Event(path, "Delete", NoPath)>>]
      [] ty.k = "MoveFrom" -> cache_or_take(cache, ty.cookie, TRUE, path)
      [] ty.k = "MoveTo" -> cache_or_take(cache, ty.cookie, FALSE, path)

RECURSIVE ConvertTys(_, _, _)
ConvertTys(cache, path, tys) ==
    IF tys = <<>> THEN [cache |-> cache, events |-> <<>>]
    ELSE LET r == ConvertTy(cache, path, Head(tys))
             rest == ConvertTys(r.cache, path, Tail(tys))
         IN  [cache |-> rest.cache, events |-> r.events \o rest.events]

\* a convert_event that asks the watch table first
convert_event_watch_first(wtab, cache, wd, event) ==
    LET path == IF wd \in DOMAIN wtab THEN wtab[wd].path ELSE event.path
    IN  IF path = NoPath THEN [cache |-> cache, events |-> <<>>]
        ELSE ConvertTys(cache, path, event.ty)

\* Registry::convert_event
convert_event(wtab, cache, wd, event) ==
    LET path == IF event.path # NoPath THEN event.path
                ELSE IF wd \in DOMAIN wtab THEN wtab[wd].path
                ELSE NoPath
    IN  IF path = NoPath THEN [cache |-> cache, events |-> <<>>]
        ELSE ConvertTys(cache, path, event.ty)

\* a send that makes room by throwing away the oldest queued event
RECURSIVE SendToNewest(_, _, _, _)
SendToNewest(collector, q, open, events) ==
    IF events = <<>> THEN [q |-> q, remove |-> FALSE, got |-> <<>>, tried |-> <<>>]
    ELSE LET e == Head(events)
             room == IF Len(q) >= channel_size THEN Tail(q) ELSE q
         IN  IF ~contained_in(e, collector.filter)
             THEN SendToNewest(collector, q, open, Tail(events))
             ELSE IF ~open
             THEN [q |-> q, remove |-> TRUE, got |-> <<>>, tried |-> <<e>>]
             ELSE IF collector.once
             THEN [q |-> Append(room, e), remove |-> TRUE, got |-> <<e>>,
                   tried |-> <<e>>]
             ELSE LET r == SendToNewest(collector, Append(room, e), open, Tail(events))
                  IN  [q |-> r.q, remove |-> r.remove, got |-> <<e>> \o r.got,
                       tried |-> <<e>> \o r.tried]

\* a loop that leaves a collector whose receiver is closed in the table
RECURSIVE SendToKeepClosed(_, _, _, _)
SendToKeepClosed(collector, q, open, events) ==
    IF events = <<>> THEN [q |-> q, remove |-> FALSE, got |-> <<>>, tried |-> <<>>]
    ELSE LET e == Head(events)
         IN  IF ~contained_in(e, collector.filter)
             THEN SendToKeepClosed(collector, q, open, Tail(events))
             ELSE IF ~open
             THEN [q |-> q, remove |-> FALSE, got |-> <<>>, tried |-> <<e>>]
             ELSE IF Len(q) >= channel_size
             THEN [q |-> q, remove |-> FALSE, got |-> <<>>, tried |-> <<e>>]
             ELSE IF collector.once
             THEN [q |-> Append(q, e), remove |-> TRUE, got |-> <<e>>,
                   tried |-> <<e>>]
             ELSE LET r == SendToKeepClosed(collector, Append(q, e), open, Tail(events))
                  IN  [q |-> r.q, remove |-> r.remove, got |-> <<e>> \o r.got,
                       tried |-> <<e>> \o r.tried]

\* The loop over the events of one binding event for one collector, with
\* its three `continue 'collectors` exits.  q is the channel's buffer, open
\* whether its receiver is still held; got are the events the channel took,
\* tried the events try_send was called with.
RECURSIVE SendTo(_, _, _, _)
SendTo(collector, q, open, events) ==
    IF events = <<>> THEN [q |-> q, remove |-> FALSE, got |-> <<>>, tried |-> <<>>]
    ELSE LET e == Head(events)
         IN  IF ~contained_in(e, collector.filter)
             THEN SendTo(collector, q, open, Tail(events))
             ELSE IF ~open                      \* TrySendError::Closed
             THEN [q |-> q, remove |-> TRUE, got |-> <<>>, tried |-> <<e>>]
             ELSE IF Len(q) >= channel_size     \* TrySendError::Full
             THEN [q |-> q, remove |-> FALSE, got |-> <<>>, tried |-> <<e>>]
             ELSE IF collector.once
             THEN [q |-> Append(q, e), remove |-> TRUE, got |-> <<e>>,
                   tried |-> <<e>>]
             ELSE LET r == SendTo(collector, Append(q, e), open, Tail(events))
                  IN  [q |-> r.q, remove |-> r.remove, got |-> <<e>> \o r.got,
                       tried |-> <<e>> \o r.tried]

\* a batch loop body that offers the events to the collectors of every watch
SendOneBroadcast(ctab, wtab, open, t, event) ==
    LET wd == event.wd
        c == convert_event(wtab, t.move_cache, wd, event)
        known == wd \in DOMAIN wtab
        ids == IF known THEN DOMAIN ctab ELSE {}
        r == [i \in ids \cap DOMAIN ctab |->
                  SendTo(ctab[i], t.chan[i], open[i], c.events)]
        t1 == [t EXCEPT !.move_cache = c.cache,
                        !.emitted = Append(@, [wd |-> wd,
                            wpath |-> IF known THEN wtab[wd].path ELSE NoPath,
                            events |-> c.events,
                            offered |-> [i \in ids \cap DOMAIN ctab |-> r[i].tried]])]
    IN  IF ~(ids \subseteq DOMAIN ctab) THEN [t1 EXCEPT !.res = "panic"]
        ELSE [t1 EXCEPT
                !.chan = [i \in DOMAIN t.chan |->
                             IF i \in ids THEN r[i].q ELSE t.chan[i]],
                !.delivered = [i \in DOMAIN t.delivered |->
                             IF i \in ids THEN t.delivered[i] \o r[i].got
                             ELSE t.delivered[i]],
                !.to_remove = @ \cup {i \in ids : r[i].remove}]

\* The body of the batch loop of try_send_events for one binding event.
\* t carries move_cache, chan, to_remove, delivered, emitted and res; an
\* entry of emitted holds the user events made from the binding event and,
\* per interested collector, the events that were offered to its channel.
SendOne(ctab, wtab, open, t, event) ==
    LET wd == event.wd
        c == convert_event(wtab, t.move_cache, wd, event)
        known == wd \in DOMAIN wtab
        ids == IF known THEN wtab[wd].interested ELSE {}
        r == [i \in ids \cap DOMAIN ctab |->
                  SendTo(ctab[i], t.chan[i], open[i], c.events)]
        t1 == [t EXCEPT !.move_cache = c.cache,
                        !.emitted = Append(@, [wd |-> wd,
                            wpath |-> IF known THEN wtab[wd].path ELSE NoPath,
                            events |-> c.events,
                            offered |-> [i \in ids \cap DOMAIN ctab |-> r[i].tried]])]
    IN  IF ~(ids \subseteq DOMAIN ctab) THEN [t1 EXCEPT !.res = "panic"]
        ELSE [t1 EXCEPT
                !.chan = [i \in DOMAIN t.chan |->
                             IF i \in ids THEN r[i].q ELSE t.chan[i]],
                !.delivered = [i \in DOMAIN t.delivered |->
                             IF i \in ids THEN t.delivered[i] \o r[i].got
                             ELSE t.delivered[i]],
                !.to_remove = @ \cup {i \in ids : r[i].remove}]

\* Registry::try_send_events
RECURSIVE try_send_events(_, _, _, _, _)
try_send_events(ctab, wtab, open, t, events) ==
    IF events = <<>> \/ t.res # "ok" THEN t
    ELSE try_send_events(ctab, wtab, open,
                         SendOne(ctab, wtab, open, t, Head(events)),
                         Tail(events))

(***************************************************************************)
(* task.rs: the Worker's handlers                                          *)
(***************************************************************************)
\* the Registry and the Binding as the handlers find them
Cur ==
    [collectors |-> collectors, watches |-> watches, move_cache |-> move_cache,
     kernel |-> kernel, next_wd |-> next_wd, n_create |-> n_create,
     n_remove |-> n_remove, calls |-> <<>>, res |-> "ok", wd |-> 0,
     remove_err |-> FALSE]

\* Registry::empty, the guard of the event arm
RegistryEmpty == watches = Empty

\* the orders in which `for id in to_remove.into_iter()` may visit a HashSet
Orders(S) ==
    {f \in [1 .. Cardinality(S) -> S] : \A i, j \in DOMAIN f : f[i] = f[j] => i = j}

AddWatchCalls(s) == Cardinality({i \in DOMAIN s.calls : s.calls[i].op = "update"})

\* The loop of TaskState::handle_events over to_remove: `?` leaves it at the
\* first error.  The failAt-th add_watch call of the step fails (0: none).
RECURSIVE DeregisterAll(_, _, _)
DeregisterAll(s, order, failAt) ==
    IF order = <<>> \/ s.res # "ok" THEN s
    ELSE DeregisterAll(
             DeregisterInterest(s, Head(order), AddWatchCalls(s) + 1 # failAt),
             Tail(order), failAt)

\* Leaving worker(), by return or by unwinding, drops the TaskState: the
\* Registry with every sender, the request receiver and the Binding.
Dropped(s) ==
    [s EXCEPT !.collectors = Empty, !.watches = Empty, !.move_cache = Empty,
              !.kernel = Empty]

\* a loop that breaks on the error of a handler
AfterHandlerFatal(res) ==
    IF res = "ok" THEN "running" ELSE IF res = "err" THEN "failed" ELSE "panicked"

\* the Worker after a handler has returned: Ok and Err both go on to the next
\* round of the loop (the error is logged); a panic unwinds the task
AfterHandler(res) == IF res = "panic" THEN "panicked" ELSE "running"

\* the state a handler leaves behind; rest is what is left in the request
\* channel, which goes with its receiver when the Worker unwinds
Install(s, rest) ==
    \E f \in {IF s.res = "panic" THEN [Dropped(s) EXCEPT !.res = "panic"] ELSE s} :
        /\ requests' = IF f.res = "panic" THEN <<>> ELSE rest
        /\ collectors' = f.collectors
        /\ watches' = f.watches
        /\ move_cache' = f.move_cache
        /\ kernel' = f.kernel
        /\ next_wd' = f.next_wd
        /\ n_create' = f.n_create
        /\ n_remove' = f.n_remove
        /\ calls' = f.calls
        /\ pc' = AfterHandler(f.res)
        /\ outcome' = f.res /\ fd' = fd

NoBatch ==
    /\ last_batch' = <<>>
    /\ emitted' = <<>>
    /\ delivered' = [i \in DOMAIN delivered |-> <<>>]

(***************************************************************************)
(* shared.rs and the handle: callers                                       *)
(***************************************************************************)
\* The `once` each entry point passes to SharedState::request:
\* AnotifyHandle::next and AnotifyHandle::watch pass true; "request" is a
\* direct call of SharedState::request for a continuous subscription.
OnceOf(api) == api \in {"next", "watch"}

Create(id, path, once, filter) ==
    [kind |-> "Create", id |-> id, path |-> path, once |-> once, filter |-> filter]
Drop(id) ==
    [kind |-> "Drop", id |-> id, path |-> NoPath, once |-> FALSE, filter |-> {}]
Close ==
    [kind |-> "Close", id |-> 0, path |-> NoPath, once |-> FALSE, filter |-> {}]

\* a request whose send does not wait: it fails on a full channel too
RequestTrySend(api, path, filter) ==
    /\ next_id < MaxIds
    /\ owner # "released"
    /\ next_id' = next_id + 1
    /\ IF pc = "running" /\ Len(requests) < channel_size
       THEN /\ requests' = Append(requests, Create(next_id, path, OnceOf(api), filter))
            /\ subs' = Put(subs, next_id, [api |-> api, path |-> path,
                             once |-> OnceOf(api), filter |-> filter, st |-> "queued"])
            /\ rx_open' = Put(rx_open, next_id, TRUE)
       ELSE /\ requests' = requests
            /\ subs' = Put(subs, next_id, [api |-> api, path |-> NoPath,
                             once |-> OnceOf(api), filter |-> {}, st |-> "closed"])
            /\ rx_open' = Put(rx_open, next_id, FALSE)
    /\ chan' = Put(chan, next_id, <<>>)
    /\ delivered' = [i \in DOMAIN delivered \cup {next_id} |-> <<>>]
    /\ sent' = Put(sent, next_id, 0)
    /\ polled' = Put(polled, next_id, "none")
    /\ last_batch' = <<>> /\ emitted' = <<>> /\ calls' = <<>>
    /\ outcome' = "none" /\ fd' = fd
    /\ UNCHANGED <<debug_assertions, pc, collectors, watches, move_cache,
                   kernel, next_wd, n_create, n_remove, nbatches,
                   owner, cancel_on_drop, requests_closed>>

\* SharedState::request, reached through `api` on some AnotifyHandle (the
\* clones made by Anotify::handle outlive the owner).  The send waits for
\* room in the request channel and fails only when its receiver is gone.
Request(api, path, filter) ==
    /\ next_id < MaxIds
    /\ owner # "released"
    /\ pc = "running" => Len(requests) < channel_size
    /\ next_id' = next_id + 1
    /\ IF pc = "running"
       THEN /\ requests' = Append(requests, Create(next_id, path, OnceOf(api), filter))
            /\ subs' = Put(subs, next_id, [api |-> api, path |-> path,
                             once |-> OnceOf(api), filter |-> filter, st |-> "queued"])
            /\ rx_open' = Put(rx_open, next_id, TRUE)
       ELSE /\ requests' = requests
            /\ subs' = Put(subs, next_id, [api |-> api, path |-> NoPath,
                             once |-> OnceOf(api), filter |-> {}, st |-> "closed"])
            /\ rx_open' = Put(rx_open, next_id, FALSE)
    /\ chan' = Put(chan, next_id, <<>>)
    /\ delivered' = [i \in DOMAIN delivered \cup {next_id} |-> <<>>]
    /\ sent' = Put(sent, next_id, 0)
    /\ polled' = Put(polled, next_id, "none")
    /\ last_batch' = <<>> /\ emitted' = <<>> /\ calls' = <<>>
    /\ outcome' = "none" /\ fd' = fd
    /\ UNCHANGED <<debug_assertions, pc, collectors, watches, move_cache,
                   kernel, next_wd, n_create, n_remove, nbatches,
                   owner, cancel_on_drop, requests_closed>>

\* the fields of a subscription that has its id but not yet sent its Create
Allocated(id, api, path, filter) ==
    /\ subs' = Put(subs, id, [api |-> api, path |-> path,
                              once |-> OnceOf(api), filter |-> filter, st |-> "allocated"])
    /\ rx_open' = Put(rx_open, id, FALSE)
    /\ chan' = Put(chan, id, <<>>)
    /\ delivered' = [i \in DOMAIN delivered \cup {id} |-> <<>>]
    /\ sent' = Put(sent, id, 0)
    /\ polled' = Put(polled, id, "none")
    /\ last_batch' = <<>> /\ emitted' = <<>> /\ calls' = <<>>
    /\ outcome' = "none" /\ fd' = fd
    /\ UNCHANGED <<debug_assertions, pc, requests, collectors, watches, move_cache,
                   kernel, next_wd, n_create, n_remove, nbatches,
                   owner, cancel_on_drop, requests_closed>>

\* an allocator that reads the counter and writes it back in two steps, so
\* that a caller may be handed a value another caller already has
next_id_racy(api, path, filter) ==
    /\ next_id < MaxIds
    /\ owner # "released"
    /\ \E id \in 0 .. next_id :
          /\ next_id' = id + 1
          /\ Allocated(id, api, path, filter)

\* SharedState::next_id, as the first statement of SharedState::request by
\* one of several callers: fetch_add(1) on the AtomicUsize
next_id_fetch_add(api, path, filter) ==
    /\ next_id < MaxIds
    /\ owner # "released"
    /\ next_id' = next_id + 1
    /\ Allocated(next_id, api, path, filter)

\* the rest of SharedState::request by the caller that was handed id: the
\* send of its Create, which waits for room
SendCreate(id) ==
    /\ id \in DOMAIN subs /\ subs[id].st = "allocated"
    /\ pc = "running" => Len(requests) < channel_size
    /\ IF pc = "running"
       THEN /\ requests' = Append(requests,
                   Create(id, subs[id].path, subs[id].once, subs[id].filter))
            /\ subs' = [subs EXCEPT ![id].st = "queued"]
            /\ rx_open' = [rx_open EXCEPT ![id] = TRUE]
       ELSE /\ requests' = requests
            /\ subs' = [subs EXCEPT ![id].st = "closed", ![id].path = NoPath,
                                    ![id].filter = {}]
            /\ rx_open' = rx_open
    /\ NoBatch /\ calls' = <<>>
    /\ outcome' = "none" /\ fd' = fd
    /\ UNCHANGED <<debug_assertions, pc, next_id, collectors, watches, move_cache,
                   kernel, next_wd, n_create, n_remove, chan, sent, nbatches,
                   owner, cancel_on_drop, requests_closed, polled>>

\* SharedState::on_drop: try_send of Drop(id)
\* an on_drop whose request overtakes the requests already queued
on_drop_front(id) ==
    requests' = IF pc = "running" /\ Len(requests) < channel_size
                THEN <<Drop(id)>> \o requests ELSE requests

on_drop(id) ==
    requests' = IF pc = "running" /\ Len(requests) < channel_size
                THEN Append(requests, Drop(id)) ELSE requests

\* The adapter of subscription id is dropped (Drop for AnotifyFutInternal):
\* its receiver goes, with whatever it still buffered.
ConsumerDrop(id) ==
    /\ id \in DOMAIN rx_open /\ rx_open[id]
    /\ rx_open' = [rx_open EXCEPT ![id] = FALSE]
    /\ chan' = [chan EXCEPT ![id] = <<>>]
    /\ on_drop(id)
    /\ polled' = [polled EXCEPT ![id] = "dropped"]
    /\ NoBatch /\ calls' = <<>>
    /\ outcome' = "none" /\ fd' = fd
    /\ UNCHANGED <<debug_assertions, pc, next_id, subs, collectors, watches,
                   move_cache, kernel, next_wd, n_create, n_remove, sent, nbatches,
                   owner, cancel_on_drop, requests_closed>>

\* The adapter takes the next event out of its channel.  AnotifyFuture drops
\* its internals with the first event it gets; AnotifyStream goes on.
ConsumerRecv(id) ==
    /\ id \in DOMAIN rx_open /\ rx_open[id]
    /\ chan[id] # <<>>
    /\ IF subs[id].api = "next"
       THEN /\ rx_open' = [rx_open EXCEPT ![id] = FALSE]
            /\ chan' = [chan EXCEPT ![id] = <<>>]
            /\ on_drop(id)
       ELSE /\ chan' = [chan EXCEPT ![id] = Tail(@)]
            /\ UNCHANGED <<rx_open, requests>>
    /\ polled' = [polled EXCEPT ![id] = "event"]
    /\ NoBatch /\ calls' = <<>>
    /\ outcome' = "none" /\ fd' = fd
    /\ UNCHANGED <<debug_assertions, pc, next_id, subs, collectors, watches,
                   move_cache, kernel, next_wd, n_create, n_remove, sent, nbatches,
                   owner, cancel_on_drop, requests_closed>>

\* SharedState::send_close: try_send of Close
send_close ==
    requests' = IF pc = "running" /\ Len(requests) < channel_size
                THEN Append(requests, Close) ELSE requests

\* what leaves everything but the owner and the request queue alone
OwnerStep ==
    /\ NoBatch /\ calls' = <<>>
    /\ outcome' = "none" /\ fd' = fd
    /\ UNCHANGED <<debug_assertions, pc, next_id, subs, collectors, watches,
                   move_cache, kernel, next_wd, n_create, n_remove, chan, rx_open,
                   sent, nbatches, requests_closed, polled>>

\* Drop for Anotify on an owner that was not downgraded
OwnerDrop ==
    /\ owner = "held"
    /\ owner' = "dropped"
    /\ IF cancel_on_drop THEN send_close ELSE requests' = requests
    /\ cancel_on_drop' = cancel_on_drop
    /\ OwnerStep

\* Anotify::close: send_close, then join; the owner is consumed, and its
\* Drop sends Close again, which the first either made superfluous or
\* which fails as the first did
OwnerClose ==
    /\ owner = "held"
    /\ owner' = "closed"
    /\ send_close
    /\ cancel_on_drop' = cancel_on_drop
    /\ OwnerStep

\* Anotify::downgrade: the owner becomes a plain handle
Downgrade ==
    /\ owner = "held"
    /\ owner' = "handle"
    /\ cancel_on_drop' = FALSE
    /\ requests' = requests
    /\ OwnerStep

\* the downgraded handle is dropped, and no clone of it is left
HandleDrop ==
    /\ owner = "handle"
    /\ owner' = "released"
    /\ UNCHANGED <<cancel_on_drop, requests>>
    /\ OwnerStep

\* a live sender of subscription id's channel: its collector, or its Create
\* still in the request queue
SenderAlive(id) ==
    \/ id \in DOMAIN collectors
    \/ \E i \in DOMAIN requests : requests[i].kind = "Create" /\ requests[i].id = id

\* a future that must not be polled once it has completed
FuturePollFused(internal, q, alive) ==
    IF ~internal THEN "panic"
    ELSE IF q # <<>> THEN "event"
    ELSE IF alive THEN "pending" ELSE "closed"

\* AnotifyFuture::poll: internal is whether the internals are still there,
\* q the channel, alive whether a sender is left
FuturePoll(internal, q, alive) ==
    IF ~internal THEN "closed"
    ELSE IF q # <<>> THEN "event"
    ELSE IF alive THEN "pending" ELSE "closed"

\* AnotifyStream::poll_next
StreamPoll(internal, q, alive) ==
    IF q # <<>> THEN "event"
    ELSE IF alive THEN "pending" ELSE "end"

PollOf(id) ==
    IF subs[id].api = "next"
    THEN FuturePoll(rx_open[id], chan[id], SenderAlive(id))
    ELSE StreamPoll(rx_open[id], chan[id], SenderAlive(id))

\* A poll of the adapter of subscription id that does not yield an event
\* (ConsumerRecv is the poll that does).
ConsumerPoll(id) ==
    /\ id \in DOMAIN polled
    /\ polled[id] # "dropped"
    /\ subs[id].st # "closed"
    /\ subs[id].api = "next" \/ rx_open[id]
    /\ PollOf(id) # "event"
    /\ polled' = [polled EXCEPT ![id] = PollOf(id)]
    /\ NoBatch /\ calls' = <<>>
    /\ outcome' = "none" /\ fd' = fd
    /\ UNCHANGED <<debug_assertions, pc, next_id, requests, subs, collectors,
                   watches, move_cache, kernel, next_wd, n_create, n_remove, chan,
                   rx_open, sent, nbatches, owner, cancel_on_drop, requests_closed>>

(***************************************************************************)
(* task.rs: the Worker's select loop                                       *)
(***************************************************************************)
SetSt(id, s) ==
    [subs EXCEPT ![id].st = IF s.res = "ok" THEN "registered"
                            ELSE IF s.res = "err" THEN "failed" ELSE "lost"]

\* The holders of the Arc<SharedState>, and with it of the request sender:
\* the TaskState itself while worker() runs, the handles, and every adapter
\* whose internals are alive.
Senders ==
    (IF pc = "running" THEN 1 ELSE 0)
    + (IF owner # "released" THEN 1 ELSE 0)
    + Cardinality({id \in DOMAIN rx_open : rx_open[id]})

\* a loop whose break is a continue: the request is consumed and the Worker
\* goes on
ExitContinue(why) ==
    /\ pc' = "running"
    /\ requests' = IF requests = <<>> THEN <<>> ELSE Tail(requests)
    /\ calls' = <<>>
    /\ UNCHANGED <<collectors, watches, move_cache, kernel, next_wd, n_create, n_remove>>

\* leaving the loop by the break of arm `why`: worker() returns and its
\* TaskState is dropped, the request receiver and the registry with it
Exit(why) ==
    /\ pc' = why
    /\ requests' = <<>>
    /\ collectors' = Empty /\ watches' = Empty /\ move_cache' = Empty
    /\ kernel' = Empty
    /\ calls' = <<>>
    /\ UNCHANGED <<next_wd, n_create, n_remove>>

\* a select with `biased;` and the event arm first: the request arm gets its
\* turn only when the event arm is not ready
RequestArmAfterEvents == ~requests_closed /\ RegistryEmpty

\* an event arm without a precondition
EventArmAlways == TRUE

\* the precondition of the event arm, `if !self.registry.empty()`
EventArmOpen == ~RegistryEmpty

\* the precondition of the request arm, `if !requests_closed`
RequestArmOpen == ~requests_closed

\* The request arm.  recv() yields the head of the queue, or None when
\* the queue is empty and no sender is left; TaskState::handle_request
\* handles a request, and Close leaves the loop.
WorkerRequest ==
    /\ pc = "running"
    /\ RequestArmOpen
    /\ IF requests = <<>>
       THEN /\ Senders = 0
            /\ requests_closed' = TRUE
            /\ calls' = <<>>
            /\ outcome' = "none" /\ fd' = fd
            /\ UNCHANGED <<pc, requests, subs, collectors, watches, move_cache,
                           kernel, next_wd, n_create, n_remove>>
       ELSE LET req == Head(requests)
            IN  /\ requests_closed' = requests_closed
                /\ IF req.kind = "Close"
                   THEN Exit("closed") /\ subs' = subs /\ outcome' = "close" /\ fd' = fd
                   ELSE \E ok \in BOOLEAN :
                          IF req.kind = "Create"
                          THEN \E s \in {RegisterInterest(Cur, req, ok, debug_assertions)} :
                                  Install(s, Tail(requests)) /\ subs' = SetSt(req.id, s)
                          ELSE \E s \in {DeregisterInterest(Cur, req.id, ok)} :
                                  Install(s, Tail(requests)) /\ subs' = subs
    /\ NoBatch
    /\ UNCHANGED <<debug_assertions, next_id, chan, rx_open, sent, nbatches,
                   owner, cancel_on_drop, polled>>

\* what binding.events() may yield: events of descriptors the kernel has
\* handed out; the self-removal of a descriptor is reported once, while live
BindingEvents ==
    {[wd |-> w, path |-> sh[1], ty |-> sh[2]] :
        w \in DOMAIN watches \cup DOMAIN n_remove, sh \in Shapes}

closing(ev) == \E i \in DOMAIN ev.ty : ev.ty[i].k = "SelfRemoved"

Batches ==
    {b \in UNION {[1 .. n -> BindingEvents] : n \in 1 .. MaxBatchLen} :
        /\ \A i \in DOMAIN b : closing(b[i]) => b[i].wd \in DOMAIN kernel
        /\ \A i, j \in DOMAIN b :
              closing(b[i]) /\ closing(b[j]) /\ b[i].wd = b[j].wd => i = j}

\* the event arm: TaskState::handle_events on a batch out of batches, with
\* a Binding whose remove returns errors (rmErr) or does not
HandleEvents(batches, rmErr) ==
    /\ pc = "running"
    /\ EventArmOpen
    /\ \E batch \in batches :
       \E t \in {try_send_events(collectors, watches, rx_open,
                     [move_cache |-> move_cache, chan |-> chan, to_remove |-> {},
                      delivered |-> [i \in DOMAIN delivered |-> <<>>],
                      emitted |-> <<>>, res |-> "ok"], batch)} :
         LET gone == {batch[i].wd : i \in {j \in DOMAIN batch : closing(batch[j])}}
             s0 == [Cur EXCEPT !.move_cache = t.move_cache, !.res = t.res,
                               !.remove_err = rmErr,
                               !.kernel = [w \in DOMAIN kernel \ gone |-> kernel[w]]]
         IN  /\ last_batch' = batch
             /\ emitted' = t.emitted
             /\ delivered' = t.delivered
             /\ chan' = t.chan
             /\ sent' = [i \in DOMAIN sent |-> sent[i] + Len(t.delivered[i])]
             /\ \E order \in Orders(t.to_remove), failAt \in 0 .. Cardinality(t.to_remove) :
                    Install(DeregisterAll(s0, order, failAt), requests)
    /\ UNCHANGED <<debug_assertions, next_id, subs, rx_open,
                   owner, cancel_on_drop, requests_closed, polled>>

\* the event arm with InotifyBinding
EventStep(batches) == HandleEvents(batches, FALSE)

\* the event arm on one of the MaxBatches batches the Binding yields in a run
EventArm(batches) ==
    /\ nbatches < MaxBatches
    /\ nbatches' = nbatches + 1
    /\ EventStep(batches)

WorkerEvents == EventArm(Batches)

\* binding.events() fails: the loop breaks
WorkerPollError ==
    /\ pc = "running"
    /\ EventArmOpen
    /\ Exit("failed")
    /\ outcome' = "poll_err" /\ fd' = fd
    /\ NoBatch
    /\ UNCHANGED <<debug_assertions, next_id, subs, chan, rx_open, sent, nbatches,
                   owner, cancel_on_drop, requests_closed, polled>>

\* the else arm: both other arms are disabled.  requests_closed is set only
\* by a recv() of None, so this arm is not among the steps of Next: the
\* TaskState's own Shared is a sender for as long as worker() runs.
WorkerElse ==
    /\ pc = "running"
    /\ requests_closed
    /\ RegistryEmpty
    /\ Exit("done")
    /\ outcome' = "none" /\ fd' = fd
    /\ NoBatch
    /\ UNCHANGED <<debug_assertions, next_id, subs, chan, rx_open, sent, nbatches,
                   owner, cancel_on_drop, requests_closed, polled>>

Init ==
    /\ debug_assertions \in BOOLEAN
    /\ pc = "running"
    /\ next_id = 0
    /\ requests = <<>>
    /\ subs = Empty
    /\ collectors = Empty
    /\ watches = Empty
    /\ move_cache = Empty
    /\ chan = Empty
    /\ rx_open = Empty
    /\ kernel = Empty
    /\ next_wd = 1
    /\ n_create = Empty
    /\ n_remove = Empty
    /\ calls = <<>>
    /\ last_batch = <<>>
    /\ emitted = <<>>
    /\ delivered = Empty
    /\ sent = Empty
    /\ nbatches = 0
    /\ owner = "held"
    /\ cancel_on_drop = TRUE
    /\ requests_closed = FALSE
    /\ outcome = "none"
    /\ polled = Empty
    /\ fd = [queued |-> 0, ready |-> FALSE, result |-> "none", n |-> 0]

Next ==
    \/ \E ask \in Asks : Request(ask[1], ask[2], ask[3])
    \/ \E id \in Ids : ConsumerDrop(id)
    \/ \E id \in Ids : ConsumerRecv(id)
    \/ WorkerRequest
    \/ WorkerEvents
    \/ WorkerPollError

Spec == Init /\ [][Next]_vars

\* The lifecycle of the handle, the adapters and the Worker, on a smaller
\* set of requests and events.
AsksLife ==
    { <<"next", "a", {"Write"}>>, <<"watch", "a", {"Write"}>> }

BatchesLife ==
    {b \in Batches : Len(b) = 1 /\ b[1].path = NoPath
                      /\ b[1].ty = <<BT("Write", 0)>>}

NextLife ==
    \/ \E ask \in AsksLife : Request(ask[1], ask[2], ask[3])
    \/ \E id \in Ids : ConsumerDrop(id)
    \/ \E id \in Ids : ConsumerRecv(id)
    \/ \E id \in Ids : ConsumerPoll(id)
    \/ OwnerDrop
    \/ OwnerClose
    \/ Downgrade
    \/ HandleDrop
    \/ WorkerRequest
    \/ EventArm(BatchesLife)
    \/ WorkerPollError

\* Several callers inside SharedState::request at once: each takes its id,
\* and sends its Create at some later moment.
NextCallers ==
    \/ \E ask \in AsksLife : next_id_fetch_add(ask[1], ask[2], ask[3])
    \/ \E id \in Ids : SendCreate(id)
    \/ \E id \in Ids : ConsumerDrop(id)
    \/ WorkerRequest
    \/ WorkerPollError

SpecCallers == Init /\ [][NextCallers]_vars

\* one-event batches, of an event the subscriptions ask for or of one they
\* do not
BatchesFair ==
    {b \in Batches : Len(b) = 1 /\ b[1].path = NoPath
                      /\ b[1].ty \in {<<BT("Write", 0)>>, <<BT("Open", 0)>>}}

\* a Binding that goes on yielding batches for as long as there is a watch
ArrivingEvents == EventStep(BatchesFair) /\ nbatches' = nbatches

NextFair ==
    \/ \E ask \in AsksLife : Request(ask[1], ask[2], ask[3])
    \/ \E id \in Ids : ConsumerDrop(id)
    \/ \E id \in Ids : ConsumerRecv(id)
    \/ WorkerRequest
    \/ ArrivingEvents
    \/ WorkerPollError

\* tokio::select! without `biased;` starts each round at a random arm, so
\* an arm that stays ready is taken after finitely many rounds
SpecFair ==
    Init /\ [][NextFair]_vars /\ WF_vars(WorkerRequest) /\ WF_vars(ArrivingEvents)

\* Filter matching: subscriptions whose filters cover every atom, and
\* binding events of every type, alone and two to one binding event.
AsksMatch ==
    {<<"next", "a", {"Write", "Open"}>>,
     <<"request", "a", {"Write", "Open"}>>,
     <<"request", "a", {"CloseModify", "DirOnly"}>>,
     <<"request", "b", {"CloseNoModify", "Read", "FileOnly"}>>,
     <<"request", "b", {"Metadata", "Create", "Delete", "Move"}>>,
     <<"next", "b", {"FileOnly"}>>}

ShapesMatch ==
    {<<NoPath, <<BT(k, 0)>>>> :
        k \in {"Open", "CloseModify", "CloseNoModify", "Read", "Write",
               "Metadata", "Create", "Delete"}}
    \cup {<<NoPath, <<BT("Open", 0), BT("Write", 0)>>>>}
    \cup {<<NoPath, <<BT(k, c)>>>> : k \in {"MoveFrom", "MoveTo"}, c \in Cookies}

BatchesMatch ==
    UNION {[1 .. n -> {[wd |-> w, path |-> sh[1], ty |-> sh[2]] :
                          w \in DOMAIN watches, sh \in ShapesMatch}] :
              n \in 1 .. MaxBatchLen}

NextMatch ==
    \/ \E ask \in AsksMatch : Request(ask[1], ask[2], ask[3])
    \/ \E id \in Ids : ConsumerDrop(id)
    \/ WorkerRequest
    \/ EventArm(BatchesMatch)

SpecMatch == Init /\ [][NextMatch]_vars

\* Event paths and renames: two watched directories, binding events with
\* and without a name of their own, for live and for removed watches.
AsksPaths ==
    {<<"request", "a", {"Move", "Create"}>>,
     <<"request", "b", {"Move", "Write"}>>,
     <<"next", "a", {"Write"}>>}

ShapesPaths ==
    {<<NoPath, <<BT("Write", 0)>>>>, <<"x", <<BT("Create", 0)>>>>}
    \cup {<<p, <<BT(k, c)>>>> :
             p \in {NoPath} \cup Names, k \in {"MoveFrom", "MoveTo"}, c \in Cookies}

BatchesPaths ==
    UNION {[1 .. n -> {[wd |-> w, path |-> sh[1], ty |-> sh[2]] :
                          w \in DOMAIN watches \cup DOMAIN n_remove,
                          sh \in ShapesPaths}] :
              n \in 1 .. MaxBatchLen}

NextPaths ==
    \/ \E ask \in AsksPaths : Request(ask[1], ask[2], ask[3])
    \/ \E id \in Ids : ConsumerDrop(id)
    \/ WorkerRequest
    \/ EventArm(BatchesPaths)

SpecPaths == Init /\ [][NextPaths]_vars

\* Renames: the two halves of a move, one binding event to a batch, from
\* one watch or from two.
AsksMoves ==
    {<<"request", "a", {"Move"}>>, <<"request", "b", {"Move", "Write"}>>}

ShapesMoves ==
    {<<NoPath, <<BT(k, c)>>>> : k \in {"MoveFrom", "MoveTo"}, c \in Cookies}

BatchesMoves ==
    {<<[wd |-> w, path |-> sh[1], ty |-> sh[2]]>> :
        w \in DOMAIN watches \cup DOMAIN n_remove, sh \in ShapesMoves}

\* a Binding that goes on yielding move events for as long as there is a watch
ArrivingMoves == EventStep(BatchesMoves) /\ nbatches' = nbatches

NextMoves ==
    \/ \E ask \in AsksMoves : Request(ask[1], ask[2], ask[3])
    \/ \E id \in Ids : ConsumerDrop(id)
    \/ WorkerRequest
    \/ ArrivingMoves

SpecMoves == Init /\ [][NextMoves]_vars

\* The kernel puts an event for a live watch into the buffer of the inotify
\* descriptor; the runtime's driver marks the descriptor readable.
KernelQueue ==
    /\ DOMAIN kernel # {}
    /\ fd.queued < MaxBatchLen
    /\ fd' = [fd EXCEPT !.queued = @ + 1, !.ready = TRUE]
    /\ NoBatch /\ calls' = <<>> /\ outcome' = "none"
    /\ UNCHANGED <<debug_assertions, pc, next_id, requests, subs, collectors,
                   watches, move_cache, chan, rx_open, kernel, next_wd, n_create,
                   n_remove, sent, nbatches, owner, cancel_on_drop,
                   requests_closed, polled>>

\* InotifyBinding::poll_events on descriptor f.  io is what the system
\* answers: "ok", or an error of poll_read_ready_mut ("ready_wouldblock",
\* "ready_err"), or an error of read_events other than EWOULDBLOCK
\* ("read_err").  late events arrive while the loop reads; the readiness
\* they raise is not taken back by clear_ready when stale.
poll_events(f, io, late, stale) ==
    IF ~f.ready \/ io = "ready_wouldblock"
    THEN [f EXCEPT !.result = "pending", !.n = 0]
    ELSE IF io \in {"ready_err", "read_err"}
    THEN [f EXCEPT !.result = "err", !.n = 0]
    ELSE [queued |-> 0, ready |-> late > 0 /\ stale,
          result |-> "ready", n |-> f.queued + late]

\* the Worker's event arm polls the Binding
PollEvents ==
    /\ pc = "running"
    /\ EventArmOpen
    /\ \E io \in {"ok", "ready_wouldblock", "ready_err", "read_err"},
          late \in 0 .. (MaxBatchLen - fd.queued), stale \in BOOLEAN :
          fd' = poll_events(fd, io, late, stale)
    /\ NoBatch /\ calls' = <<>> /\ outcome' = "none"
    /\ UNCHANGED <<debug_assertions, pc, next_id, requests, subs, collectors,
                   watches, move_cache, chan, rx_open, kernel, next_wd, n_create,
                   n_remove, sent, nbatches, owner, cancel_on_drop,
                   requests_closed, polled>>

NextPoll ==
    \/ \E ask \in AsksLife : Request(ask[1], ask[2], ask[3])
    \/ \E id \in Ids : ConsumerDrop(id)
    \/ WorkerRequest
    \/ KernelQueue
    \/ PollEvents

SpecPoll == Init /\ [][NextPoll]_vars

\* TaskState<B, I> with any Binding: two single-shot subscriptions on two
\* directories, and a remove that may return an error.
AsksAnyBinding ==
    {<<"next", "a", {"Write"}>>, <<"next", "b", {"Write"}>>}

BatchesAnyBinding ==
    UNION {[1 .. n -> {[wd |-> w, path |-> NoPath, ty |-> <<BT("Write", 0)>>] :
                          w \in DOMAIN watches}] :
              n \in 1 .. MaxBatchLen}

EventArmAnyBinding ==
    /\ nbatches < MaxBatches
    /\ nbatches' = nbatches + 1
    /\ \E rmErr \in BOOLEAN : HandleEvents(BatchesAnyBinding, rmErr)

NextAnyBinding ==
    \/ \E ask \in AsksAnyBinding : Request(ask[1], ask[2], ask[3])
    \/ \E id \in Ids : ConsumerDrop(id)
    \/ WorkerRequest
    \/ EventArmAnyBinding

SpecAnyBinding == Init /\ [][NextAnyBinding]_vars

\* tokio::select! polls every enabled arm, so a request that is ready is
\* taken after finitely many rounds of the loop
SpecLife == Init /\ [][NextLife]_vars /\ WF_vars(WorkerRequest)

(***************************************************************************)
(* Properties.                                                             *)
(***************************************************************************)
InSeq(e, q) == \E i \in DOMAIN q : q[i] = e

\* the caller of subscription id got (id, receiver) back, the Worker handled
\* its Create without error, and its adapter is still held
Registered(id) == subs[id].st = "registered" /\ rx_open[id]

\* the path binding event k of the last batch resolves to
Eff(b, em, k) == IF b[k].path # NoPath THEN b[k].path ELSE em[k].wpath

\* C1: the collector and watch tables are bidirectionally consistent: every
\* collector id with wd = w has w in the watch table and id in
\* watches[w].interested, and every interested id is a collector with that wd.
C1_Bidirectional ==
    /\ \A id \in DOMAIN collectors :
          /\ collectors[id].wd \in DOMAIN watches
          /\ id \in watches[collectors[id].wd].interested
    /\ \A w \in DOMAIN watches : \A id \in watches[w].interested :
          id \in DOMAIN collectors /\ collectors[id].wd = w

\* C2: for every watch, event_filter is the union of the filters of the
\* collectors in its interested set.
C2_FilterUnion ==
    \A w \in DOMAIN watches :
        watches[w].event_filter =
            UNION {collectors[id].filter :
                      id \in watches[w].interested \cap DOMAIN collectors}

\* C3: every subscription registered on the path of the watch that reported
\* a binding event is served, the second registrant like the first: no event
\* its filter does not contain reaches it, every event its filter contains
\* reaches a continuous one, and a single-shot one has had its event once
\* the batch held one its filter contains (unless its channel is full).
C3_FanOut ==
    \A k \in DOMAIN emitted : \A id \in DOMAIN subs :
        (Registered(id) /\ subs[id].path = emitted[k].wpath)
        => \A j \in DOMAIN emitted[k].events :
              LET e == emitted[k].events[j]
              IN  IF ~contained_in(e, subs[id].filter)
                  THEN ~InSeq(e, delivered[id])
                  ELSE \/ Len(chan[id]) = channel_size
                       \/ IF subs[id].once THEN sent[id] >= 1
                          ELSE InSeq(e, delivered[id])

\* C4: a single-shot subscription has at most one event put into its channel
\* over its lifetime, and once it has one its collector is gone.
C4_SingleShot ==
    \A id \in DOMAIN subs :
        subs[id].once =>
            /\ sent[id] <= 1
            /\ (sent[id] = 1 /\ pc = "running") => id \notin DOMAIN collectors

\* C5: a subscription made through watch(path, filter) is continuous: its
\* collector has once = false and is still registered after an event was
\* delivered to it.
C5_WatchContinuous ==
    \A id \in DOMAIN subs :
        subs[id].api = "watch" =>
            /\ id \in DOMAIN collectors => ~collectors[id].once
            /\ (Registered(id) /\ sent[id] > 0 /\ pc = "running")
                  => id \in DOMAIN collectors

\* C6: when the batch just handled held a SelfRemoved for watch w, a Delete
\* was delivered to every subscription on it whose filter includes Delete,
\* w is gone from the watch table, and Binding.remove(w) was never called.
C6_SelfRemoved ==
    pc = "running" =>
        \A k \in DOMAIN last_batch :
            closing(last_batch[k]) =>
                /\ last_batch[k].wd \notin DOMAIN watches
                /\ Count(n_remove, last_batch[k].wd) = 0
                /\ \A id \in DOMAIN subs :
                      (Registered(id) /\ subs[id].path = emitted[k].wpath
                          /\ "Delete" \in subs[id].filter)
                      => \/ \E e \in {delivered[id][i] : i \in DOMAIN delivered[id]} :
                               e.ty = "Delete"
                         \/ Len(chan[id]) = channel_size

\* C7: after a batch with a SelfRemoved for watch w was handled, no collector
\* attached to w is left in the collector table.
C7_SelfRemovedCollectors ==
    pc = "running" =>
        \A k \in DOMAIN last_batch :
            closing(last_batch[k]) =>
                \A id \in DOMAIN collectors : collectors[id].wd # last_batch[k].wd

\* C8: whenever the collector table is empty, the watch table is empty and
\* every wd that Binding.create returned has had Binding.remove called on it
\* exactly once.
C8_AllRemoved ==
    (pc = "running" /\ collectors = Empty) =>
        /\ watches = Empty
        /\ \A w \in DOMAIN n_create : Count(n_remove, w) = 1

C8_Witness ==
    /\ pc = "running" /\ collectors = Empty
    /\ Cardinality(DOMAIN n_create) = 2
    /\ \A w \in DOMAIN n_create : Count(n_remove, w) = 1

\* C9: no Watch has an empty interested set, and a wd that was created is
\* absent from the watch table exactly when Binding.remove was called on it;
\* the step that takes a Watch out of the table is a deregistration of one
\* of its interested ids and calls Binding.remove(wd) in that same step.
C9_NoEmptyWatch ==
    /\ [](/\ \A w \in DOMAIN watches : watches[w].interested # {}
          /\ pc = "running" =>
                \A w \in DOMAIN n_create :
                    w \notin DOMAIN watches <=> Count(n_remove, w) > 0)
    /\ [][\A w \in DOMAIN watches :
             (pc' = "running" /\ w \notin DOMAIN watches')
             => /\ \E i \in DOMAIN calls' :
                      calls'[i] = [op |-> "remove", wd |-> w,
                                   path |-> NoPath, flags |-> {}]
                /\ \E id \in watches[w].interested :
                      id \notin DOMAIN collectors']_vars

C9_Witness ==
    /\ pc = "running"
    /\ watches # Empty
    /\ \E w \in DOMAIN n_remove : w \notin DOMAIN watches /\ n_remove[w] = 1
    /\ \E i \in DOMAIN calls : calls[i].op = "remove"

IsHalf(ev, c) ==
    Len(ev.ty) = 1 /\ ev.ty[1].k \in {"MoveFrom", "MoveTo"} /\ ev.ty[1].cookie = c

\* C10: when cookie c is not pending, a MoveFrom{c} with path P and a
\* MoveTo{c} with path Q handled one after the other, in either order, give
\* exactly one user event, (P, Move{to: Q}); the first half gives none and
\* is cached, the event is made while the second half is handled, and the
\* cookie is then pending no more.
C10_MovePair ==
    [][\A c \in Cookies :
          LET b == last_batch'
              em == emitted'
          IN  (/\ c \notin DOMAIN move_cache
               /\ Len(b) >= 1 /\ Len(em) = Len(b)
               /\ IsHalf(b[1], c) /\ Eff(b, em, 1) # NoPath)
              => /\ em[1].events = <<>>
                 /\ Len(b) = 1 => (c \in DOMAIN move_cache'
                                   \/ pc' # "running")
                 /\ (/\ Len(b) = 2 /\ IsHalf(b[2], c)
                     /\ b[2].ty[1].k # b[1].ty[1].k
                     /\ Eff(b, em, 2) # NoPath)
                    => LET f == IF b[1].ty[1].k = "MoveFrom" THEN 1 ELSE 2
                       IN  /\ em[2].events =
                                <<Event(Eff(b, em, f), "Move", Eff(b, em, 3 - f))>>
                           /\ c \notin DOMAIN move_cache']_vars

C10_Witness ==
    /\ Len(last_batch) = 2 /\ Len(emitted) = 2
    /\ \E c \in Cookies :
          /\ IsHalf(last_batch[1], c) /\ IsHalf(last_batch[2], c)
          /\ last_batch[1].ty[1].k = "MoveTo" /\ last_batch[2].ty[1].k = "MoveFrom"
    /\ emitted[1].events = <<>>
    /\ Len(emitted[2].events) = 1
    /\ emitted[2].events[1].path # emitted[2].events[1].to

\* PathBuf::join of a watched directory and the name of an entry in it
Join(dir, name) == dir \o "/" \o name

\* C11: on a watch of directory d, MoveFrom{c} carrying name x followed by
\* MoveTo{c} carrying name y, with c not pending before, gives exactly one
\* user event, with path d/x and type Move{to: d/y}.
C11_JoinedPath ==
    [][\A c \in Cookies :
          LET b == last_batch'
              em == emitted'
          IN  (/\ c \notin DOMAIN move_cache
               /\ Len(b) = 2 /\ Len(em) = 2
               /\ IsHalf(b[1], c) /\ b[1].ty[1].k = "MoveFrom"
               /\ IsHalf(b[2], c) /\ b[2].ty[1].k = "MoveTo"
               /\ b[1].wd = b[2].wd /\ em[1].wpath # NoPath
               /\ b[1].path # NoPath /\ b[2].path # NoPath)
              => /\ em[1].events = <<>>
                 /\ em[2].events = <<Event(Join(em[1].wpath, b[1].path), "Move",
                                           Join(em[2].wpath, b[2].path))>>]_vars

RECURSIVE Flat(_)
Flat(em) == IF em = <<>> THEN <<>> ELSE Head(em).events \o Flat(Tail(em))

\* the user events of the last batch that came from the watch of the path of
\* subscription id and that its filter contains, in the order they were made
MatchingFor(id) ==
    LET OnPath(r) == r.wpath = subs[id].path
        Wanted(e) == contained_in(e, subs[id].filter)
    IN  SelectSeq(Flat(SelectSeq(emitted, OnPath)), Wanted)

\* C12: when events of a batch were dropped for a continuous subscription
\* because its channel is full, that subscription stays registered, and every other
\* subscription registered on the same path whose channel has room got the
\* events its filter contains (a single-shot one its one event).
C12_FullDropsOnlyThere ==
    \A i \in DOMAIN subs :
        (/\ pc = "running" /\ Registered(i) /\ ~subs[i].once
         /\ Len(chan[i]) = channel_size
         /\ Len(delivered[i]) < Len(MatchingFor(i)))
        => /\ i \in DOMAIN collectors
           /\ \A j \in DOMAIN subs \ {i} :
                 (/\ Registered(j) /\ subs[j].path = subs[i].path
                  /\ Len(chan[j]) < channel_size
                  /\ MatchingFor(j) # <<>>)
                 => IF subs[j].once THEN sent[j] >= 1
                    ELSE delivered[j] = MatchingFor(j)

RECURSIVE IsSubseq(_, _)
IsSubseq(s, t) ==
    \/ s = <<>>
    \/ /\ t # <<>>
       /\ \/ Head(s) = Head(t) /\ IsSubseq(Tail(s), Tail(t))
          \/ IsSubseq(s, Tail(t))

\* the user events made from the binding events of watch wd that filter
\* contains, in the order they were made
MatchingWd(em, wd, filter) ==
    LET OfWd(r) == r.wd = wd
        Wanted(e) == contained_in(e, filter)
    IN  SelectSeq(Flat(SelectSeq(em, OfWd)), Wanted)

Min(a, b) == IF a < b THEN a ELSE b

\* C13: what a collector is sent by a batch is an order-preserving
\* subsequence of the events of its watch that its filter contains; it is
\* appended behind the events already queued, which are kept; a channel
\* never holds more than its capacity, and a continuous collector gets
\* exactly the first arrivals that still fit (capacity 2, three arrivals:
\* the first two, in order).  The consumer takes events from the front.
C13_OrderedDropNewest ==
    [][\A id \in DOMAIN chan :
          /\ Len(chan'[id]) <= channel_size
          /\ \/ chan'[id] = chan[id] \o delivered'[id]
             \/ chan[id] # <<>> /\ chan'[id] = Tail(chan[id]) /\ delivered'[id] = <<>>
             \/ ~rx_open'[id] /\ chan'[id] = <<>> /\ delivered'[id] = <<>>
          /\ IF id \in DOMAIN collectors
             THEN LET m == MatchingWd(emitted', collectors[id].wd,
                                      collectors[id].filter)
                  IN  /\ IsSubseq(delivered'[id], m)
                      /\ (/\ pc' = "running" /\ ~collectors[id].once
                          /\ rx_open[id]
                          /\ collectors[id].wd \in DOMAIN watches
                          /\ id \in watches[collectors[id].wd].interested)
                         => delivered'[id] =
                              SubSeq(m, 1, Min(Len(m), channel_size - Len(chan[id])))
             ELSE delivered'[id] = <<>>]_vars

C13_Witness ==
    \E id \in DOMAIN collectors :
        LET m == MatchingWd(emitted, collectors[id].wd, collectors[id].filter)
        IN  /\ ~collectors[id].once /\ rx_open[id]
            /\ Len(m) = channel_size + 1
            /\ chan[id] = SubSeq(m, 1, channel_size)
            /\ delivered[id] = chan[id]
            /\ chan[id][1] # chan[id][2]

\* C14: once SharedState::request has returned an id and a receiver for
\* path p, the first event the Binding then yields for p that the filter
\* contains is delivered to the new subscription, whether its Create was
\* already handled or not and whether p was already watched or not.
C14_RegisteredBeforeDelivery ==
    \A id \in DOMAIN subs :
        (/\ pc = "running"
         /\ subs[id].st # "closed" /\ rx_open[id]
         /\ sent[id] = Len(delivered[id])
         /\ MatchingFor(id) # <<>>)
        => /\ delivered[id] # <<>>
           /\ delivered[id][1] = MatchingFor(id)[1]


\* C15: once the owning handle is dropped without having been downgraded,
\* the Worker eventually leaves its loop, whatever is in the request queue
\* and the registry at that moment.
C15_DropExits == (owner = "dropped") ~> (pc # "running")


\* C16: when the Worker dequeues Close it leaves the loop in that same step,
\* handling no further request and no event batch; once it has exited, no
\* sender of any per-subscription channel is left, and a receiver yields
\* what it has buffered, in order, and then the end of the stream.
C16_CloseExits ==
    /\ [](pc = "closed" =>
            /\ requests = <<>> /\ collectors = Empty /\ watches = Empty
            /\ \A id \in DOMAIN chan : ~SenderAlive(id))
    /\ [][(pc = "running" /\ requests # <<>> /\ Head(requests) = Close) =>
            \/ /\ pc' = "closed"
               /\ calls' = <<>> /\ last_batch' = <<>> /\ emitted' = <<>>
               /\ chan' = chan /\ subs' = subs /\ sent' = sent
            \/ pc' \in {"failed", "panicked"}
            \/ pc' = "running" /\ requests' # <<>> /\ Head(requests') = Close]_vars
    /\ [][pc = "closed" =>
            \A id \in DOMAIN polled :
               /\ chan'[id] \in {chan[id], <<>>} \cup
                                  (IF chan[id] = <<>> THEN {} ELSE {Tail(chan[id])})
               /\ (rx_open[id] /\ polled'[id] \notin {polled[id], "dropped"}) =>
                     polled'[id] = IF chan[id] # <<>> THEN "event"
                                   ELSE IF subs[id].api = "next" THEN "closed" ELSE "end"
               /\ polled[id] = "end" => polled'[id] \in {"end", "dropped"}]_vars

\* the Worker left by a Close, and a stream that was sent an event has
\* yielded the end of the stream
C16_Witness ==
    /\ pc = "closed"
    /\ owner \in {"dropped", "closed"}
    /\ \E id \in DOMAIN polled : polled[id] = "end" /\ sent[id] >= 1


\* every handle and every adapter is gone, and no Close was sent
HandlesGone ==
    /\ owner = "released"
    /\ \A id \in DOMAIN rx_open : ~rx_open[id]

\* C17: when every handle to the request channel has been dropped without a
\* Close, the Worker comes to mark its requests as closed (and from then on
\* runs only while the registry holds a watch) or has left its loop.
C17_SendersGone == HandlesGone ~> (requests_closed \/ pc # "running")


\* C18: after the adapter of subscription id has been dropped while the
\* Worker runs, the Worker eventually has no collector for id (or is gone).
C18_DroppedRemoved ==
    \A id \in Ids :
       (id \in DOMAIN polled /\ polled[id] = "dropped")
          ~> (pc # "running" \/ id \notin DOMAIN collectors)


\* C19: a request made when the Worker's request receiver is gone returns
\* Closed and registers nothing; a request made while the receiver is alive
\* does not fail: it is enqueued and returns an id and a receiver, and a
\* request channel that is full gets room again for as long as the Worker
\* runs.
C19_ClosedOnly ==
    /\ [][next_id' # next_id =>
            LET id == next_id
            IN  IF pc = "running"
                THEN /\ subs'[id].st = "queued"
                     /\ rx_open'[id]
                     /\ Len(requests) < channel_size
                     /\ requests' = Append(requests,
                            Create(id, subs'[id].path, subs'[id].once, subs'[id].filter))
                ELSE /\ subs'[id].st = "closed"
                     /\ ~rx_open'[id]
                     /\ UNCHANGED <<requests, collectors, watches, kernel>>]_vars
    /\ [](\A id \in DOMAIN subs :
            subs[id].st = "closed" =>
               /\ ~SenderAlive(id)
               /\ \A w \in DOMAIN watches : id \notin watches[w].interested)
    /\ (pc = "running" /\ Len(requests) = channel_size)
          ~> (pc # "running" \/ Len(requests) < channel_size)

\* one request was enqueued while the Worker ran, a later one met a Worker
\* that had gone and got Closed
C19_Witness ==
    /\ pc # "running"
    /\ \E i, j \in DOMAIN subs : subs[i].st # "closed" /\ subs[j].st = "closed"


\* the single-event future of subscription id has completed, with an event
\* or with Closed
Completed(id) ==
    /\ id \in DOMAIN polled
    /\ subs[id].api = "next"
    /\ polled[id] \in {"event", "closed"}

\* C20: once a single-event future has completed, with an event or because
\* its channel closed without a delivery, a poll of it returns Closed: what
\* a poll would return in any such state is Closed, and no step takes its
\* last result to anything but Closed (or to its being dropped).
C20_StableClosed ==
    /\ [](\A id \in Ids : Completed(id) => PollOf(id) = "closed")
    /\ [][\A id \in Ids : Completed(id) =>
              polled'[id] \in {polled[id], "closed", "dropped"}]_vars

\* a future that completed with an event has been polled again
C20_Witness ==
    \E id \in DOMAIN polled :
       /\ subs[id].api = "next"
       /\ polled[id] = "closed"
       /\ ~rx_open[id]
       /\ sent[id] >= 1


\* C21: deregister_interest is idempotent.  Called with an id that has no
\* collector it returns success, changes neither table nor the move cache
\* and calls the Binding not at all; called a second time with an id it has
\* just deregistered it does the same.
C21_Idempotent ==
    \A id \in Ids, ok \in BOOLEAN :
       /\ id \notin DOMAIN collectors => DeregisterInterest(Cur, id, ok) = Cur
       /\ id \in DOMAIN collectors =>
             LET s1 == DeregisterInterest(Cur, id, ok)
             IN  s1.res # "panic" =>
                    \A ok2 \in BOOLEAN :
                       DeregisterInterest(s1, id, ok2) = [s1 EXCEPT !.res = "ok"]

\* the only subscription there is was a single event; its collector went
\* with the delivery, and the Drop its adapter sent has been handled
C21_Witness ==
    /\ pc = "running"
    /\ next_id = 1
    /\ subs[0].api = "next"
    /\ polled[0] = "event"
    /\ 0 \notin DOMAIN collectors
    /\ requests = <<>>


\* C22: registering a collector with filter B on a path whose watch has filter
\* A (the filter of the collector registered before) leaves that watch with
\* event_filter A \cup B; the union being symmetric, so does the other order.
C22_UnionAnyOrder ==
    [][\A id \in DOMAIN subs :
          (/\ subs[id].st = "queued"
           /\ subs'[id].st # "queued"
           /\ \E w \in DOMAIN watches : watches[w].path = subs[id].path)
          => \E w \in DOMAIN watches :
                /\ watches[w].path = subs[id].path
                /\ w \in DOMAIN watches'
                /\ watches'[w].event_filter =
                      watches[w].event_filter \cup subs[id].filter]_vars


\* the ids of the Create requests in the request channel, in queue order
CreateIds == [i \in DOMAIN requests |->
                 IF requests[i].kind = "Create" THEN requests[i].id ELSE -1]

\* C23: the subscription ids handed out are strictly increasing in the order
\* of allocation and pairwise distinct, also with several callers inside
\* request at once: each allocation hands out next_id, an id no subscription
\* has, greater than every id handed out before, and leaves the subscriptions
\* there are as they were; no id is in two Create requests or two collectors'
\* hands.
C23_IdsDistinct ==
    /\ [](/\ DOMAIN subs = 0 .. (next_id - 1)
          /\ \A i, j \in DOMAIN requests :
                (CreateIds[i] = CreateIds[j] /\ CreateIds[i] # -1) => i = j
          /\ \A i \in DOMAIN requests :
                CreateIds[i] # -1 => (CreateIds[i] \in DOMAIN subs
                                      /\ CreateIds[i] \notin DOMAIN collectors))
    /\ [][/\ next_id' >= next_id
           /\ DOMAIN subs \subseteq DOMAIN subs'
           /\ \A i \in DOMAIN subs :
                 /\ subs'[i].api = subs[i].api
                 /\ subs'[i].st = "allocated" => subs'[i] = subs[i]
           /\ next_id' # next_id =>
                 /\ next_id' = next_id + 1
                 /\ next_id \notin DOMAIN subs
                 /\ DOMAIN subs' = DOMAIN subs \cup {next_id}
                 /\ \A j \in DOMAIN subs : j < next_id]_vars

\* two callers were inside request at once, and the one that took its id
\* second has sent its Create first
C23_Witness ==
    /\ next_id = 2
    /\ subs[0].st = "allocated"
    /\ subs[1].st = "queued"


C25_UpdateOnlyWhenWider ==
    [][\A id \in DOMAIN subs : \A w \in DOMAIN watches :
          (/\ subs[id].st = "queued"
           /\ subs'[id].st # "queued"
           /\ watches[w].path = subs[id].path)
          => calls' = IF subs[id].filter \subseteq watches[w].event_filter
                      THEN <<>>
                      ELSE <<[op |-> "update", wd |-> w, path |-> subs[id].path,
                              flags |-> watches[w].event_filter \cup subs[id].filter]>>]_vars


\* subscription id was registered without error and no event was sent to it
Untouched(id) == subs[id].st = "registered" /\ sent[id] = 0

\* the subscriptions other than id that are registered on the path of id and
\* whose adapters are held
Remaining(id) ==
    {j \in DOMAIN subs \ {id} :
        Untouched(j) /\ rx_open[j] /\ subs[j].path = subs[id].path}

\* C26: when the Worker handles the Drop of a subscription that is not the
\* last one on its watch, the watch stays, its event_filter becomes the
\* union of the remaining subscriptions' filters, and the Binding is called
\* once, with update(wd, path, union), when that union differs from the
\* previous event_filter, and not at all when it does not.
C26_NarrowOnDrop ==
    [][\A id \in DOMAIN subs : \A w \in DOMAIN watches :
          (/\ pc = "running" /\ pc' = "running"
           /\ requests # <<>> /\ Head(requests) = Drop(id)
           /\ ~InSeq(Drop(id), requests')
           /\ Untouched(id)
           /\ Remaining(id) # {}
           /\ watches[w].path = subs[id].path)
          => LET new == UNION {subs[j].filter : j \in Remaining(id)}
             IN  /\ w \in DOMAIN watches'
                 /\ watches'[w].event_filter = new
                 /\ calls' = IF new = watches[w].event_filter THEN <<>>
                              ELSE <<[op |-> "update", wd |-> w,
                                      path |-> subs[id].path, flags |-> new]>>]_vars


\* C27: when a Create for a path that is no watch's path is handled without
\* error and Binding.create returns a wd that is already a key of the watch
\* table, the new collector is merged into that watch: the ids interested
\* before stay interested, next to the new one.
C27_AliasMerged ==
    [][\A id \in DOMAIN subs : \A w \in DOMAIN watches :
          (/\ subs[id].st = "queued"
           /\ subs'[id].st = "registered"
           /\ \A v \in DOMAIN watches : watches[v].path # subs[id].path
           /\ w \in DOMAIN kernel /\ kernel[w] = Inode(subs[id].path))
          => /\ w \in DOMAIN watches'
             /\ watches[w].interested \cup {id} \subseteq watches'[w].interested]_vars


\* C28: an error returned by handle_request or handle_events does not end
\* the Worker, which stays in its loop with its registry; an error of the
\* Binding's event poll ends the loop.
C28_ErrorsSwallowed ==
    /\ [](outcome = "err" => pc = "running")
    /\ [](outcome = "poll_err" => pc = "failed")
    /\ [][outcome' = "err" =>
             /\ pc' = "running"
             /\ requests_closed' = requests_closed
             /\ \/ requests' = requests
                \/ requests # <<>> /\ requests' = Tail(requests)]_vars

\* a Create was answered with an error by the Binding, and the Worker runs on
C28_Witness ==
    /\ outcome = "err"
    /\ pc = "running"
    /\ \E id \in DOMAIN subs : subs[id].st = "failed"


\* C29: the Worker polls the Binding for events only when the registry
\* holds a watch, takes a request only while the request channel is open,
\* and leaves its loop only on a Close request, on an error of the Binding's
\* poll, or when the request channel is closed and the registry is empty.
C29_ArmGuards ==
    [][/\ (last_batch' # <<>> \/ outcome' = "poll_err") =>
             (pc = "running" /\ ~RegistryEmpty)
       /\ (last_batch' = <<>> /\ outcome' \in {"ok", "err", "panic", "close"}) =>
             (pc = "running" /\ ~requests_closed /\ requests # <<>>)
       /\ (pc = "running" /\ pc' \notin {"running", "panicked"}) =>
             \/ outcome' = "close" /\ requests # <<>> /\ Head(requests) = Close
             \/ outcome' = "poll_err" /\ ~RegistryEmpty
             \/ requests_closed /\ RegistryEmpty]_vars

\* the Worker has handled an event batch and then left on a Close
C29_Witness ==
    /\ pc = "closed"
    /\ outcome = "close"
    /\ nbatches >= 1

\* the fixed mapping from the type of a user event to its filter atom
FixedAtom ==
    [Read |-> "Read", Write |-> "Write", Open |-> "Open",
     Close_true |-> "CloseModify", Close_false |-> "CloseNoModify",
     Move |-> "Move", Create |-> "Create", Delete |-> "Delete",
     Metadata |-> "Metadata"]

IsPrefix(s, t) == Len(s) <= Len(t) /\ s = SubSeq(t, 1, Len(s))

\* C30 as it is worded: of the user events made from a binding event, the
\* ones offered to an interested collector are exactly the ones whose atom
\* under the fixed mapping is in the collector's filter.
C30_OfferedIffContained ==
    \A k \in DOMAIN emitted : \A id \in DOMAIN emitted[k].offered :
        \A n \in DOMAIN emitted[k].events :
            LET e == emitted[k].events[n]
            IN  InSeq(e, emitted[k].offered[id])
                    <=> FixedAtom[e.ty] \in subs[id].filter

\* C30: the events of a binding event that are offered to an interested
\* collector are, in order, the first of the events whose atom under the
\* fixed mapping is in the collector's filter, DirOnly and FileOnly left
\* out of the filter; all of them are offered unless the send of the last
\* one offered ended the collector's turn for this binding event (it was
\* taken by a single-shot collector, or found the channel full or closed).
C30_FilterDecides ==
    \A k \in DOMAIN emitted : \A id \in DOMAIN emitted[k].offered :
        LET Wanted(e) == FixedAtom[e.ty] \in subs[id].filter \ {"DirOnly", "FileOnly"}
            matching == SelectSeq(emitted[k].events, Wanted)
            off == emitted[k].offered[id]
        IN  /\ IsPrefix(off, matching)
            /\ Len(off) < Len(matching) =>
                   /\ off # <<>>
                   /\ \/ subs[id].once
                      \/ ~rx_open[id]
                      \/ Len(chan[id]) = channel_size

\* a collector whose filter holds CloseModify and DirOnly was offered a
\* Close{modified: true}, and none of the other events of the batch
C30_Witness ==
    /\ Len(emitted) = 2
    /\ \E id \in DOMAIN emitted[1].offered \cap DOMAIN emitted[2].offered :
          /\ subs[id].filter = {"CloseModify", "DirOnly"}
          /\ emitted[1].events # <<>> /\ emitted[1].offered[id] = <<>>
          /\ Len(emitted[2].offered[id]) = 1
          /\ emitted[2].offered[id][1].ty = "Close_true"

\* the path convert_event resolves for binding event b against the watch
\* table wtab, NoPath when there is none
EffectivePath(wtab, b) ==
    IF b.path # NoPath THEN b.path
    ELSE IF b.wd \in DOMAIN wtab THEN wtab[b.wd].path
    ELSE NoPath

\* C31: the user events made from a binding event carry the binding
\* event's own path when it has one and else the path of the Watch of its
\* wd (a Move carries it on the side of the half that completed it); a
\* binding event without a path whose wd has no Watch makes no user event,
\* and a batch of such events leaves the tables, the move cache, the
\* channels and the Binding alone.
C31_EffectivePath ==
    [][last_batch' # <<>> =>
          /\ \A k \in DOMAIN last_batch' :
                LET b == last_batch'[k]
                    eff == EffectivePath(watches, b)
                    evs == emitted'[k].events
                IN  /\ eff = NoPath => evs = <<>>
                    /\ \A n \in DOMAIN evs :
                          IF evs[n].ty = "Move"
                          THEN \E i \in DOMAIN b.ty :
                                 \/ b.ty[i].k = "MoveFrom" /\ evs[n].path = eff
                                 \/ b.ty[i].k = "MoveTo" /\ evs[n].to = eff
                          ELSE evs[n].path = eff
          /\ (\A k \in DOMAIN last_batch' :
                 EffectivePath(watches, last_batch'[k]) = NoPath)
             => /\ move_cache' = move_cache /\ watches' = watches
                /\ collectors' = collectors /\ chan' = chan
                /\ kernel' = kernel /\ calls' = <<>>]_vars

\* a batch whose first binding event, for a removed watch and without a
\* path, made nothing, and whose second, a Create with the name x, made an
\* event with the path x
C31_Witness ==
    /\ Len(last_batch) = 2
    /\ last_batch[1].path = NoPath /\ last_batch[1].wd \notin DOMAIN watches
    /\ last_batch[1].ty[1].k = "MoveFrom"
    /\ emitted[1].events = <<>> /\ move_cache = Empty
    /\ last_batch[2].path = "x" /\ last_batch[2].wd \in DOMAIN watches
    /\ Len(emitted[2].events) = 1
    /\ emitted[2].events[1].path = "x" /\ emitted[2].events[1].ty = "Create"

\* C32: in a step that handles a batch without a panic, every collector
\* whose receiver is closed and for whose watch the batch holds an event
\* that its filter contains is taken out of the collector table and out of
\* every interested set within that step, nothing is put into its channel,
\* and when it was the only one interested in its watch the Watch is
\* removed and Binding.remove is called for it; no Drop request is needed.
C32_ClosedMarked ==
    [][(last_batch' # <<>> /\ outcome' # "panic") =>
          \A id \in DOMAIN collectors :
             LET wd == collectors[id].wd
             IN  (/\ ~rx_open[id]
                  /\ wd \in DOMAIN watches /\ id \in watches[wd].interested
                  /\ MatchingWd(emitted', wd, collectors[id].filter) # <<>>)
                 => /\ id \notin DOMAIN collectors'
                    /\ \A w \in DOMAIN watches' : id \notin watches'[w].interested
                    /\ delivered'[id] = <<>>
                    /\ watches[wd].interested = {id} =>
                          /\ wd \notin DOMAIN watches'
                          /\ \E i \in DOMAIN calls' :
                                calls'[i].op = "remove" /\ calls'[i].wd = wd]_vars

\* subscription 0 was registered, its adapter was dropped while the request
\* channel was full, so that its Drop was lost, and the batch just handled
\* removed its collector and its watch
C32_Witness ==
    /\ last_batch # <<>> /\ pc = "running"
    /\ 0 \in DOMAIN subs /\ subs[0].st = "registered" /\ ~rx_open[0]
    /\ \A i \in DOMAIN requests : requests[i] # Drop(0)
    /\ 0 \notin DOMAIN collectors
    /\ MatchingFor(0) # <<>> /\ delivered[0] = <<>>
    /\ \E i \in DOMAIN calls : calls[i].op = "remove"

\* binding event b is a move half with cookie c that convert_event translates
LiveHalf(wtab, b, c) ==
    /\ Len(b.ty) = 1 /\ b.ty[1].k \in {"MoveFrom", "MoveTo"} /\ b.ty[1].cookie = c
    /\ EffectivePath(wtab, b) # NoPath

\* the number of entries for cookie c before the k-th binding event of
\* batch is handled, should each translated half toggle the entry
HalvesBefore(cache, wtab, batch, k, c) ==
    Cardinality({j \in 1 .. (k - 1) : LiveHalf(wtab, batch[j], c)})
        + (IF c \in DOMAIN cache THEN 1 ELSE 0)

\* C33: the move cache has at most one entry per cookie; a translated move
\* half whose cookie has no entry puts its path there and makes no event,
\* the next translated half with that cookie makes one Move event and
\* takes the entry away.
C33_OneEntryPerCookie ==
    /\ [](DOMAIN move_cache \subseteq Cookies)
    /\ [][(last_batch' # <<>> /\ outcome' # "panic") =>
            \A c \in Cookies :
               LET b == last_batch'
                   n(k) == HalvesBefore(move_cache, watches, b, k, c)
               IN  /\ \A k \in DOMAIN b :
                         IF LiveHalf(watches, b[k], c)
                         THEN IF n(k) % 2 = 0
                              THEN emitted'[k].events = <<>>
                              ELSE /\ Len(emitted'[k].events) = 1
                                   /\ emitted'[k].events[1].ty = "Move"
                         ELSE \A i \in DOMAIN emitted'[k].events :
                                 emitted'[k].events[i].ty # "Move"
                   /\ c \in DOMAIN move_cache' <=> n(Len(b) + 1) % 2 = 1
                   /\ (c \in DOMAIN move_cache' /\ c \in DOMAIN move_cache
                         /\ n(Len(b) + 1) = 1)
                      => move_cache'[c] = move_cache[c]]_vars

\* a batch of one move half found the other half, cached by an earlier
\* batch, made the Move event and left the cache empty
C33_Witness ==
    /\ Len(last_batch) = 1 /\ LiveHalf(watches, last_batch[1], 7)
    /\ Len(emitted[1].events) = 1 /\ emitted[1].events[1].ty = "Move"
    /\ move_cache = Empty

\* C34: poll_events never returns Ready with an empty batch.
C34_NeverEmptyReady == fd.result = "ready" => fd.n > 0

\* C35: handling a Create for a path that is the path of an existing watch
\* does not fail the assertion of Watch::register, and when it succeeds the
\* new id is in the interested set of that watch and has a Collector in the
\* collector table.
C35_RegisterOnExisting ==
    [][\A id \in DOMAIN subs : \A w \in DOMAIN watches :
          (/\ subs[id].st = "queued"
           /\ subs'[id].st # "queued"
           /\ watches[w].path = subs[id].path)
          => /\ outcome' # "panic"
             /\ outcome' = "ok" =>
                   /\ w \in DOMAIN watches' /\ id \in watches'[w].interested
                   /\ id \in DOMAIN collectors']_vars

\* C36: when handling a Create fails with an error of the Binding, the
\* collector table and the watch table, interested sets and event filters
\* included, are what they were before.
C36_FailedRegisterNoChange ==
    [][\A id \in DOMAIN subs :
          (/\ subs[id].st = "queued"
           /\ subs'[id].st # "queued"
           /\ outcome' = "err")
          => /\ collectors' = collectors
             /\ watches' = watches]_vars

\* try_send_events marks collector id in a step that ends with chan' and
\* delivered': its receiver is closed and the batch held an event for its
\* watch that its filter contains, or it is single-shot and got an event
Marked(id) ==
    LET wd == collectors[id].wd
    IN  /\ wd \in DOMAIN watches /\ id \in watches[wd].interested
        /\ \/ ~rx_open[id] /\ MatchingWd(emitted', wd, collectors[id].filter) # <<>>
           \/ collectors[id].once /\ delivered'[id] # <<>>

\* C37: after a step that handles a batch, every collector that
\* try_send_events marked for removal is out of the collector table, also
\* when a Binding call made for another marked id returned an error.
C37_AllMarkedRemoved ==
    [][(last_batch' # <<>> /\ outcome' # "panic") =>
          \A id \in DOMAIN collectors :
             Marked(id) => id \notin DOMAIN collectors']_vars

\* the Worker step from this state handles the request at the head of the queue
HandlesHead ==
    /\ pc = "running" /\ requests # <<>>
    /\ last_batch' = <<>> /\ outcome' \in {"ok", "err", "panic"}

\* C38: no Drop(id) stands before Create(id) in the request channel; when
\* the Worker handles Drop(id) the Create of id has been handled, and after
\* the step id has no collector; a subscription whose Create has been
\* handled and that has no collector never gets one again.
C38_CreateBeforeDrop ==
    /\ [](\A i, j \in DOMAIN requests :
            (requests[i].kind = "Drop" /\ requests[j].kind = "Create"
               /\ requests[j].id = requests[i].id) => j < i)
    /\ [][(HandlesHead /\ Head(requests).kind = "Drop") =>
            LET id == Head(requests).id
            IN  /\ id \in DOMAIN subs
                /\ subs[id].st \notin {"allocated", "queued"}
                /\ id \notin DOMAIN collectors']_vars
    /\ [][\A id \in DOMAIN subs :
            (subs[id].st \notin {"allocated", "queued"} /\ id \notin DOMAIN collectors)
            => id \notin DOMAIN collectors']_vars

\* the Worker has just handled the Drop of subscription 0, which was
\* registered and whose adapter is gone, and removed its collector and watch
C38_Witness ==
    /\ 0 \in DOMAIN subs /\ subs[0].st = "registered" /\ polled[0] = "dropped"
    /\ outcome = "ok" /\ last_batch = <<>>
    /\ 0 \notin DOMAIN collectors
    /\ \E i \in DOMAIN calls : calls[i].op = "remove"
    /\ 1 \in DOMAIN subs /\ subs[1].st = "allocated"

\* C39: the move cache is one for all watches: a translated half pairs
\* with the half cached under its cookie whichever watch that came from.
\* The Move event made is put only into channels of collectors of the
\* watch that reported the second half; when the first half came from
\* another watch, that watch's collectors get nothing in the step.
C39_MoveToSecondWatch ==
    [][(last_batch' # <<>> /\ outcome' # "panic") =>
          /\ \A id \in DOMAIN collectors : \A n \in DOMAIN delivered'[id] :
                \E k \in DOMAIN last_batch' :
                   /\ last_batch'[k].wd = collectors[id].wd
                   /\ InSeq(delivered'[id][n], emitted'[k].events)
          /\ \A c \in Cookies \cap DOMAIN move_cache :
                LET b == last_batch'[1]
                IN  (/\ LiveHalf(watches, b, c) /\ b.wd \in DOMAIN watches
                     /\ move_cache[c] # watches[b.wd].path)
                    => /\ Len(emitted'[1].events) = 1
                       /\ emitted'[1].events[1].ty = "Move"
                       /\ {emitted'[1].events[1].path, emitted'[1].events[1].to}
                             = {move_cache[c], watches[b.wd].path}
                       /\ \A id \in DOMAIN collectors :
                             IF collectors[id].wd = b.wd
                             THEN ("Move" \in collectors[id].filter /\ rx_open[id]
                                     /\ Len(chan[id]) < channel_size)
                                  => delivered'[id] = emitted'[1].events
                             ELSE delivered'[id] = <<>>]_vars

\* two collectors that both ask for Move, on two watches: the second half
\* of a rename came from the one watch, the first from the other, and only
\* the collector of the second half's watch has the Move event
C39_Witness ==
    /\ Len(last_batch) = 1 /\ Len(emitted[1].events) = 1
    /\ emitted[1].events[1].ty = "Move"
    /\ emitted[1].events[1].path # emitted[1].events[1].to
    /\ \E i, j \in DOMAIN collectors :
          /\ collectors[i].wd = last_batch[1].wd /\ collectors[j].wd # last_batch[1].wd
          /\ "Move" \in collectors[i].filter /\ "Move" \in collectors[j].filter
          /\ rx_open[j] /\ Len(chan[j]) < channel_size
          /\ delivered[i] = emitted[1].events /\ delivered[j] = <<>>

====
